---- MODULE Spec2Model ----
(***************************************************************************)
(* A model of the host-bridge core of blaze:                               *)
(*   native-engine/datafusion-ext/src/hdfs_object_store.rs                 *)
(*     HDFSSingleFileObjectStore, HDFSObjectReader, HDFSFileReader (handed *)
(*     out inside a std::io::BufReader) and FSInputStreamWrapper           *)
(*   native-engine/blaze/src/metrics.rs                                    *)
(*     update_spark_metric_node and update_metrics                         *)
(* Spec is the read path of the object store (opening, readers, reads,     *)
(* drops), SpecApi its whole interface without read traffic, SpecMetrics   *)
(* the metric walk.                                                        *)
(* The host (the JVM side) is the environment: every host call either      *)
(* fails or returns a value drawn from a small set.                        *)
(***************************************************************************)
EXTENDS Integers, Sequences, FiniteSets, TLC

\* ------------------------------------------------------------------ bounds

\* The model checker's integers are 32 bits wide, so u64, usize and i64 are
\* modelled as words of WordBits bits; every cast and every wrapping
\* addition is the code's, at that width.
WordBits == 16

\* How many readers a run creates with sync_reader / sync_chunk_reader.
MaxReaders == 2

\* How many read(buf) calls a run makes, over all readers.
MaxReads == 2

\* How many nodes the native plan tree of a metric walk has at most.
MaxNodes == 3

\* How many metrics a plan node's snapshot holds at most.
MaxMetrics == 2

\* 2^WordBits: the number of values of a u64 / usize in the model.
WordMod == 2 ^ WordBits

\* u64::MAX / usize::MAX at the model's width.
WordMax == WordMod - 1

\* i64::MAX at the model's width.
SignedMax == (WordMod \div 2) - 1

\* ------------------------------------------------------- integer conversions

\* `x as usize` / `x as u64` of a signed integer (jint -> usize, line 128):
\* sign extension followed by reinterpretation, i.e. the value modulo 2^w.
AsUnsigned(x) == x % WordMod

\* `x as i64` of an unsigned word (self.pos as i64, line 125; as_usize() as
\* i64, metrics.rs line 30): a raw reinterpretation, values above i64::MAX
\* come out negative.
AsSigned(x) == IF x > SignedMax THEN x - WordMod ELSE x

\* ---------------------------------------------------------- the object store

\* The buffer size of std::io::BufReader::new (DEFAULT_BUF_SIZE), the reader
\* get_reader wraps HDFSFileReader in.
BufCapacity == 8192

\* The wrappers a run creates. The model follows one object reader and its
\* wrapper through its whole life: two wrappers share no state in the code.
WrapperIds == {1}

\* The SizedFile values file_reader is called with.
Files == { [path |-> "/a/b", size |-> 1024], [path |-> "/x", size |-> 100] }

\* The start offsets sync_chunk_reader is called with.
Starts == {0, 512}

\* The advisory lengths sync_chunk_reader is called with.
Lengths == {0, 4096}

\* The buffer sizes a caller passes to read(buf).
CallerLens == {512, 8192}

\* What readFSDataInputStream returns when it does not throw: a jint.
HostCounts == {-1, 0, 1024}

\* A closure that opens the path before it has a filesystem and a path.
OpenStepsOpenFirst ==
    <<"open", "getHDFSFileSystem", "NewString", "HadoopPath", "NewGlobalRef">>

\* The host calls of file_reader's closure, in program order.
OpenSteps == <<"getHDFSFileSystem", "NewString", "HadoopPath", "open", "NewGlobalRef">>

\* A file_reader outcome: the index of the host call that fails, 0 for none.
OpenOutcomes == 0 .. Len(OpenSteps)

NoWrapper == [st |-> "none", strong |-> 0, objHeld |-> FALSE, closeCalls |-> 0,
              file |-> [path |-> "", size |-> 0]]

NoOp == [op |-> "init"]

VARIABLES
    wrappers,       \* wrapper id -> FSInputStreamWrapper and its Arc count
    leaked,         \* host streams opened by file_reader and never wrapped
    readers,        \* the readers handed out, in creation order
    nOpens,         \* file_reader calls made
    nReads,         \* read(buf) calls made
    last            \* the last operation: its inputs, host calls and result

\* The metric walk (update_spark_metric_node).
VARIABLES
    mPc,            \* idle, metrics (in update_metrics), children (in the loop), done, failed
    mStack,         \* the recursion: one frame per update_spark_metric_node call
    mSnap,          \* metric_values of the running or last update_metrics call
    mK,             \* the index in mSnap of the entry the loop is at
    mNode,          \* the host metric node of that update_metrics call
    mAdds,          \* the add calls that update_metrics call has issued
    mChildren,      \* native node -> its number of children, once read
    mKnown,         \* the native nodes known to exist so far
    mVisited,       \* the host metric nodes update_metrics was called on
    mGetChild,      \* the getChild calls issued, in order
    mResult         \* what the walk returned

svars == <<wrappers, leaked, readers, nOpens, nReads, last>>

mvars == <<mPc, mStack, mSnap, mK, mNode, mAdds, mChildren, mKnown, mVisited,
           mGetChild, mResult>>

vars == <<svars, mvars>>

Init ==
    /\ wrappers = [w \in WrapperIds |-> NoWrapper]
    /\ leaked = 0
    /\ readers = <<>>
    /\ nOpens = 0
    /\ nReads = 0
    /\ last = NoOp
    /\ mPc = "idle"
    /\ mStack = <<>>
    /\ mSnap = <<>>
    /\ mK = 1
    /\ mNode = <<>>
    /\ mAdds = <<>>
    /\ mChildren = {}
    /\ mKnown = 1
    /\ mVisited = <<>>
    /\ mGetChild = <<>>
    /\ mResult = [kind |-> "none"]

\* ------------------------------------------------------------ file_reader

\* The host calls file_reader issues when the call numbered failAt fails
\* (0: none does): every `?` of the closure returns at the first failure.
FileReaderIssued(failAt) ==
    IF failAt = 0 THEN OpenSteps ELSE SubSeq(OpenSteps, 1, failAt)

\* The host-call error a failing jni macro returns: it knows the call, and
\* nothing of the SizedFile.
HostError(call) == [kind |-> "host", call |-> call]

\* ResultExt::to_io_result as file_reader and read use it: a method of the
\* Result alone, so the io::Error it builds carries the cause and nothing else.
ToIoResult(e) == [kind |-> "io", cause |-> e]

\* The value file_reader returns.
FileReaderResult(failAt) ==
    IF failAt = 0
    THEN [kind |-> "ok"]
    ELSE ToIoResult(HostError(OpenSteps[failAt]))

\* Arc::new(FSInputStreamWrapper(..)) inside Arc::new(HDFSObjectReader {..}):
\* one wrapper, held once, by the object reader.
NewWrapper(file) ==
    [st |-> "live", strong |-> 1, objHeld |-> TRUE, closeCalls |-> 0, file |-> file]

\* file_reader(file): the whole call, with the host failing at failAt.
FileReader ==
    /\ nOpens < Cardinality(WrapperIds)
    /\ \E file \in Files, failAt \in OpenOutcomes :
         LET w == nOpens + 1
             issued == FileReaderIssued(failAt)
             opened == \E i \in 1 .. Len(issued) : issued[i] = "open"
             openOk == opened /\ failAt # 4
         IN /\ nOpens' = w
            /\ wrappers' = IF failAt = 0
                           THEN [wrappers EXCEPT ![w] = NewWrapper(file)]
                           ELSE wrappers
            /\ leaked' = IF failAt # 0 /\ openOk THEN leaked + 1 ELSE leaked
            /\ last' = [op |-> "file_reader", file |-> file, failAt |-> failAt,
                        issued |-> issued, result |-> FileReaderResult(failAt),
                        reader |-> IF failAt = 0 THEN w ELSE 0]
    /\ UNCHANGED <<readers, nReads, mvars>>

\* --------------------------------------------------- the unsupported methods

\* unreachable!() (list_file, list_dir) and unimplemented!() (chunk_reader):
\* both panic, and neither touches the host.
Unsupported(macro) == [kind |-> "panic", macro |-> macro, issued |-> <<>>]

\* list_file(prefix).
ListFile ==
    /\ \E prefix \in {"/x"} :
         LET u == Unsupported("unreachable")
         IN last' = [op |-> "list_file", arg |-> prefix, issued |-> u.issued,
                     result |-> [kind |-> u.kind, macro |-> u.macro]]
    /\ UNCHANGED <<wrappers, leaked, readers, nOpens, nReads, mvars>>

\* list_dir(prefix, delimiter).
ListDir ==
    /\ \E prefix \in {"/x"} :
         LET u == Unsupported("unreachable")
         IN last' = [op |-> "list_dir", arg |-> prefix, issued |-> u.issued,
                     result |-> [kind |-> u.kind, macro |-> u.macro]]
    /\ UNCHANGED <<wrappers, leaked, readers, nOpens, nReads, mvars>>

\* chunk_reader(start, length) on a held object reader.
ChunkReader ==
    /\ \E w \in WrapperIds, start \in Starts :
         /\ wrappers[w].objHeld
         /\ LET u == Unsupported("unimplemented")
            IN last' = [op |-> "chunk_reader", arg |-> start, issued |-> u.issued,
                        result |-> [kind |-> u.kind, macro |-> u.macro]]
    /\ UNCHANGED <<wrappers, leaked, readers, nOpens, nReads, mvars>>

\* ------------------------------------------------- sync_reader and get_reader

Min(a, b) == IF a < b THEN a ELSE b

\* No position: what hostPos holds before a reader's first host read.
NoPos == -WordMod

\* A reader that starts at byte 0 whatever start it was asked for.
NewReaderAtZero(w, start) ==
    [w |-> w, start |-> start, pos |-> 0, avail |-> 0, st |-> "live",
     sum |-> 0, given |-> 0, hostPos |-> -(2 ^ WordBits), eof |-> FALSE]

\* HDFSFileReader { hdfs_input_stream: clone, pos: start } inside
\* BufReader::new: an empty buffer (avail is filled - pos of the BufReader).
\* The rest is history. sum: the sum of the counts HDFSFileReader::read
\* returned Ok; given: the sum of the counts the caller's read returned Ok;
\* hostPos: the position last passed to the host (NoPos before the first
\* host read); eof: whether the host's last answer to this reader was 0.
NewReader(w, start) ==
    [w |-> w, start |-> start, pos |-> start, avail |-> 0, st |-> "live",
     sum |-> 0, given |-> 0, hostPos |-> NoPos, eof |-> FALSE]

\* A dropped reader: its memory is gone, only its wrapper is remembered.
Dropped(w) ==
    [w |-> w, start |-> 0, pos |-> 0, avail |-> 0, st |-> "dropped",
     sum |-> 0, given |-> 0, hostPos |-> NoPos, eof |-> FALSE]

\* A clone that shares the pointer without counting the new holder.
ArcCloneUncounted(strong) == strong

\* The Arc count after self.hdfs_input_stream.clone().
ArcClone(strong) == strong + 1

\* get_reader(start) on object reader w: no host call, never an error.
GetReader(w, start, op, length) ==
    /\ Len(readers) < MaxReaders
    /\ wrappers[w].objHeld
    /\ readers' = Append(readers, NewReader(w, start))
    /\ wrappers' = [wrappers EXCEPT ![w].strong = ArcClone(@)]
    /\ last' = [op |-> op, w |-> w, start |-> start, length |-> length,
                issued |-> <<>>, result |-> [kind |-> "ok"],
                reader |-> Len(readers) + 1]
    /\ UNCHANGED <<leaked, nOpens, nReads, mvars>>

\* sync_chunk_reader(start, _).
SyncChunkReader ==
    \E w \in WrapperIds, start \in Starts, length \in Lengths :
        GetReader(w, start, "sync_chunk_reader", length)

\* sync_reader(): sync_chunk_reader(0, 0).
SyncReader ==
    \E w \in WrapperIds : GetReader(w, 0, "sync_reader", 0)

\* ------------------------------------------------------------------ length

\* A length that reports nothing of the file.
LengthIsZero(obj) == 0

\* self.file.size of the object reader obj: a field read.
LengthOf(obj) == obj.file.size

\* length() on a held object reader: no host call, nothing changes.
Length ==
    /\ \E w \in WrapperIds :
         /\ wrappers[w].objHeld
         /\ last' = [op |-> "length", w |-> w, issued |-> <<>>,
                     result |-> LengthOf(wrappers[w])]
    /\ UNCHANGED <<wrappers, leaked, readers, nOpens, nReads, mvars>>

\* ------------------------------------------------------ HDFSFileReader::read

\* What the host does with one read: the direct buffer cannot be created,
\* readFSDataInputStream throws, or it returns a jint.
HostOutcomes ==
    {[kind |-> "buf_fail", n |-> 0], [kind |-> "throw", n |-> 0]}
        \cup {[kind |-> "count", n |-> c] : c \in HostCounts}

\* A cursor that moves by the size of the caller's buffer instead.
AdvanceByBufLen(pos, n, len) == pos + len

\* self.pos + read_size as u64, before any wrapping: the cursor moves by the
\* count the host returned, not by the size len of the caller's buffer.
Advance(pos, n, len) == pos + n

\* Whether self.pos += read_size as u64 overflows the word.
Overflows(pos, len, ho) ==
    ho.kind = "count" /\ Advance(pos, AsUnsigned(ho.n), len) > WordMax

\* A read that moves the cursor by the buffer's size before it asks the
\* host, and leaves it there when the host call fails.
InnerReadAdvancesFirst(pos, len, ho, checks) ==
    LET moved == (pos + len) % (2 ^ WordBits)
        n == ho.n % (2 ^ WordBits)
    IN  IF ho.kind = "buf_fail"
        THEN [res |-> "err", n |-> 0, pos |-> pos, called |-> FALSE,
              hostPos |-> AsSigned(pos), err |-> ToIoResult(HostError("NewDirectByteBuffer"))]
        ELSE IF ho.kind = "throw"
        THEN [res |-> "err", n |-> 0, pos |-> moved, called |-> TRUE,
              hostPos |-> AsSigned(pos), err |-> ToIoResult(HostError("readFSDataInputStream"))]
        ELSE IF pos + n > WordMax /\ checks
        THEN [res |-> "panic", n |-> 0, pos |-> pos, called |-> TRUE,
              hostPos |-> AsSigned(pos), err |-> [kind |-> "none"]]
        ELSE [res |-> "ok", n |-> n, pos |-> (pos + n) % (2 ^ WordBits), called |-> TRUE,
              hostPos |-> AsSigned(pos), err |-> [kind |-> "none"]]

\* HDFSFileReader::read(buf) with buf.len() = len at cursor pos, the host
\* answering ho. res is ok (Ok(n)), err (an io::Error) or panic: an
\* overflowing += panics in a build with overflow checks (checks) and wraps
\* in one without.
InnerRead(pos, len, ho, checks) ==
    LET hostPos == AsSigned(pos)
    IN  IF ho.kind = "buf_fail"
        THEN [res |-> "err", n |-> 0, pos |-> pos, called |-> FALSE,
              hostPos |-> hostPos, err |-> ToIoResult(HostError("NewDirectByteBuffer"))]
        ELSE IF ho.kind = "throw"
        THEN [res |-> "err", n |-> 0, pos |-> pos, called |-> TRUE,
              hostPos |-> hostPos, err |-> ToIoResult(HostError("readFSDataInputStream"))]
        ELSE LET n == AsUnsigned(ho.n)
                 next == Advance(pos, n, len)
             IN  IF next > WordMax /\ checks
                 THEN [res |-> "panic", n |-> 0, pos |-> pos, called |-> TRUE,
                       hostPos |-> hostPos, err |-> [kind |-> "none"]]
                 ELSE [res |-> "ok", n |-> n, pos |-> next % WordMod, called |-> TRUE,
                       hostPos |-> hostPos, err |-> [kind |-> "none"]]

\* What the inner reader was not asked: a read served from the buffer.
NoInner(pos) ==
    [res |-> "none", n |-> 0, pos |-> pos, called |-> FALSE, hostPos |-> 0,
     err |-> [kind |-> "none"]]

\* A wrapper that buffers nothing: every read goes to the inner reader.
NeedsInnerAlways(avail) == TRUE

\* Whether BufReader::read(buf) goes to the inner reader: only with an empty
\* buffer.
NeedsInner(avail) == avail = 0

\* The buffer the inner reader is given: the caller's when the BufReader is
\* empty and the caller's is at least as large as its own, else its own.
InnerLen(avail, len) == IF avail = 0 /\ len >= BufCapacity THEN len ELSE BufCapacity

\* std::io::BufReader::read(buf) over the inner reader: [res, n, avail] for
\* the caller, given the inner read's result (NoInner when not called).
BufRead(avail, len, inner) ==
    IF ~NeedsInner(avail)
    THEN [res |-> "ok", n |-> Min(len, avail), avail |-> avail - Min(len, avail)]
    ELSE IF inner.res # "ok"
    THEN [res |-> inner.res, n |-> 0, avail |-> 0]
    ELSE IF len >= BufCapacity
    THEN [res |-> "ok", n |-> inner.n, avail |-> 0]
    ELSE IF inner.n > BufCapacity
    THEN [res |-> "panic", n |-> 0, avail |-> 0]
    ELSE [res |-> "ok", n |-> Min(len, inner.n), avail |-> inner.n - Min(len, inner.n)]

\* read(buf) on a handed-out reader in state from: the BufReader's read and,
\* inside it, at most one HDFSFileReader::read.
ReadFrom(from) ==
    /\ nReads < MaxReads
    /\ \E r \in 1 .. Len(readers), len \in CallerLens, ho \in HostOutcomes,
          checks \in BOOLEAN :
         LET rd == readers[r]
             ilen == InnerLen(rd.avail, len)
             inner == IF NeedsInner(rd.avail)
                      THEN InnerRead(rd.pos, ilen, ho, checks)
                      ELSE NoInner(rd.pos)
             out == BufRead(rd.avail, len, inner)
         IN /\ rd.st = from
            /\ (ho.kind = "count" => ho.n <= ilen)
            /\ (~NeedsInner(rd.avail) => ho = [kind |-> "count", n |-> 0])
            /\ (~(NeedsInner(rd.avail) /\ Overflows(rd.pos, ilen, ho)) => ~checks)
            /\ readers' = [readers EXCEPT ![r] =
                   [rd EXCEPT !.pos = inner.pos,
                              !.avail = out.avail,
                              !.st = IF out.res = "panic" THEN "poisoned" ELSE "live",
                              !.sum = IF inner.res = "ok" THEN @ + inner.n ELSE @,
                              !.given = IF out.res = "ok" THEN @ + out.n ELSE @,
                              !.eof = IF inner.called /\ ho.kind = "count"
                                      THEN ho.n = 0 ELSE @,
                              !.hostPos = IF inner.called THEN inner.hostPos ELSE @]]
            /\ last' = [op |-> "read", reader |-> r, len |-> len, ho |-> ho,
                        inner |-> inner, innerLen |-> ilen,
                        issued |-> IF inner.called THEN <<"readFSDataInputStream">> ELSE <<>>,
                        res |-> out.res, n |-> out.n,
                        posBefore |-> rd.pos, posAfter |-> inner.pos,
                        availBefore |-> rd.avail, sumBefore |-> rd.sum,
                        givenBefore |-> rd.given, hostPosBefore |-> rd.hostPos,
                        eofBefore |-> rd.eof]
    /\ nReads' = nReads + 1
    /\ UNCHANGED <<wrappers, leaked, nOpens, mvars>>

\* read(buf) as one step: the caller's thread enters and returns.
Read == ReadFrom("live")

\* A thread enters read(buf) on a reader: from here to its return it is
\* inside the call, through &mut self, and the call's host read may be in
\* progress.
ReadEnter ==
    /\ nReads < MaxReads
    /\ \E r \in 1 .. Len(readers) :
         /\ readers[r].st = "live"
         /\ readers' = [readers EXCEPT ![r].st = "reading"]
         /\ last' = [op |-> "read_enter", reader |-> r, w |-> readers[r].w]
    /\ UNCHANGED <<wrappers, leaked, nOpens, nReads, mvars>>

\* The read(buf) a thread is inside of returns.
ReadReturn == ReadFrom("reading")

\* ------------------------------------------------ drops and the wrapper's Drop

\* What close() on the host stream does.
CloseOutcomes == {"ok", "throw"}

\* A wrapper without a Drop of its own: the reference goes, close() is not
\* called.
WrapperDropNoClose(wr, co) == [wr EXCEPT !.st = "destroyed"]

\* FSInputStreamWrapper::drop: one close() host call, its result discarded
\* (let _ = ...), then the wrapper is gone.
WrapperDrop(wr, co) ==
    [wr EXCEPT !.st = "destroyed", !.closeCalls = @ + 1]

\* A Drop that unwraps the close result: a failed close() panics.
DropResultUnwrap(co) == IF co = "throw" THEN "panic" ELSE "completed"

\* What a drop reports to the dropping code: a Rust drop returns nothing,
\* and this one discards the close result.
DropResult(co) == "completed"

\* Dropping one Arc<FSInputStreamWrapper>: the count goes down, and the
\* holder that brings it to 0 runs the wrapper's Drop.
ArcDrop(wr, co) ==
    LET less == [wr EXCEPT !.strong = @ - 1]
    IN  IF less.strong = 0 THEN WrapperDrop(less, co) ELSE less

\* The record of a drop: whether it ran the wrapper's Drop, and how that went.
DropRecord(op, w, before, after, co) ==
    LET ran == after.closeCalls > before.closeCalls
    IN  [op |-> op, w |-> w, ranDrop |-> after.st = "destroyed",
         issued |-> IF ran THEN <<"close">> ELSE <<>>,
         closeOutcome |-> IF after.st = "destroyed" THEN co ELSE "none",
         result |-> IF after.st = "destroyed" THEN DropResult(co) ELSE "completed"]

\* A reader (the BufReader and the HDFSFileReader in it) is dropped, also
\* after an error or a panic.
DropReader ==
    /\ \E r \in 1 .. Len(readers), co \in CloseOutcomes :
         LET w == readers[r].w
             after == ArcDrop(wrappers[w], co)
         IN /\ readers[r].st \in {"live", "poisoned"}
            /\ (after.st # "destroyed" => co = "ok")
            /\ readers' = [readers EXCEPT ![r] = Dropped(w)]
            /\ wrappers' = [wrappers EXCEPT ![w] = after]
            /\ last' = DropRecord("drop_reader", w, wrappers[w], after, co)
    /\ UNCHANGED <<leaked, nOpens, nReads, mvars>>

\* The object reader (Arc<dyn ObjectReader>) is dropped.
DropObjectReader ==
    /\ \E w \in WrapperIds, co \in CloseOutcomes :
         LET after == ArcDrop([wrappers[w] EXCEPT !.objHeld = FALSE], co)
         IN /\ wrappers[w].objHeld
            /\ (after.st # "destroyed" => co = "ok")
            /\ wrappers' = [wrappers EXCEPT ![w] = after]
            /\ last' = DropRecord("drop_object_reader", w, wrappers[w], after, co)
    /\ UNCHANGED <<leaked, readers, nOpens, nReads, mvars>>

\* The read path: opening, handing out readers, reading, dropping.
Next ==
    \/ FileReader
    \/ SyncChunkReader
    \/ SyncReader
    \/ Read
    \/ DropReader
    \/ DropObjectReader

Spec == Init /\ [][Next]_vars

\* The read path with other threads running between a read's entry and its
\* return, on readers made by sync_reader. A reader is owned by one thread
\* and borrowed by its read, so it is not dropped while a read is inside it.
NextThreads ==
    \/ FileReader
    \/ SyncReader
    \/ Length
    \/ ReadEnter
    \/ ReadReturn
    \/ DropReader
    \/ DropObjectReader

SpecThreads == Init /\ [][NextThreads]_vars

\* The whole object-store and object-reader interface, without read traffic.
NextApi ==
    \/ FileReader
    \/ ListFile
    \/ ListDir
    \/ ChunkReader
    \/ SyncChunkReader
    \/ SyncReader
    \/ Length
    \/ DropReader
    \/ DropObjectReader

SpecApi == Init /\ [][NextApi]_vars

\* ============================================================ the metric walk

\* An allow-list that lost its last name.
ReportedMetricsShort ==
    <<"input_rows", "input_batches", "output_rows", "output_batches",
      "elapsed_compute">>

\* REPORTED_METRICS, in the order of the source.
REPORTED_METRICS ==
    <<"input_rows", "input_batches", "output_rows", "output_batches",
      "elapsed_compute", "join_time">>

\* REPORTED_METRICS.contains(&name): exact string equality.
IsReported(name) ==
    \E i \in 1 .. Len(REPORTED_METRICS) : REPORTED_METRICS[i] = name

\* The metric names a plan node may carry: two of the list, one that is not
\* on it, and one that differs from a listed name by case only.
MetricNames == {"input_rows", "join_time", "custom_x", "Input_rows"}

\* The counter values a metric may hold (as_usize()): a small one and the
\* largest unsigned word.
CounterValues == {7, WordMax}

\* The metric sets a plan node may hold: up to MaxMetrics metrics in
\* iteration order, names may repeat.
MetricSets ==
    UNION {[1 .. n -> [name : MetricNames, counter : CounterValues]] : n \in 0 .. MaxMetrics}

\* .map(|m| (m.name(), m.as_usize() as i64)).collect(): the snapshot
\* update_metrics is handed. `as i64` keeps the bits of the usize. counter is
\* history: the native value the entry was made from.
Snapshot(metrics) ==
    [j \in 1 .. Len(metrics) |->
        [name |-> metrics[j].name, value |-> AsSigned(metrics[j].counter),
         counter |-> metrics[j].counter]]

\* A host whose getChild returns its first child whatever index it is given.
HostChildFirst(h, i) == Append(h, 0)

\* The host's getChild(i) on metric node h: its i-th child.
HostChild(h, i) == Append(h, i)

\* The frame of one update_spark_metric_node(metric_node, execution_plan)
\* call: nc is children().len(), read when the loop starts, i the loop index.
Frame(node, host) == [node |-> node, host |-> host, nc |-> 0, i |-> 0]

\* The first lines of update_spark_metric_node on (host, node): the node's
\* metrics are read and update_metrics starts on the snapshot.
Enter(stack, node, host) ==
    \E metrics \in MetricSets :
        /\ mStack' = Append(stack, Frame(node, host))
        /\ mSnap' = Snapshot(metrics)
        /\ mK' = 1
        /\ mNode' = host
        /\ mAdds' = <<>>
        /\ mVisited' = Append(mVisited, host)
        /\ mPc' = "metrics"

\* An error that is noted while the walk goes on.
FailGoesOn(call) ==
    /\ mPc' = mPc
    /\ mStack' = mStack
    /\ mResult' = [kind |-> "err", cause |-> [kind |-> "host", call |-> call]]

\* An error leaves through every `?` up to the caller of the walk.
Fail(call) ==
    /\ mPc' = "failed"
    /\ mStack' = <<>>
    /\ mResult' = [kind |-> "err", cause |-> HostError(call)]

\* updateMetrics: the walk starts at the two roots.
StartWalk ==
    /\ mPc = "idle"
    /\ Enter(<<>>, <<>>, <<>>)
    /\ UNCHANGED <<mChildren, mKnown, mGetChild, mResult, svars>>

\* One turn of update_metrics' loop: an unlisted name is skipped, a listed
\* one costs a NewString and an add, either of which may fail.
MetricStep ==
    /\ mPc = "metrics"
    /\ mK <= Len(mSnap)
    /\ \E outcome \in {"ok", "string_fails", "add_fails"} :
         LET e == mSnap[mK]
             call == [node |-> mNode, name |-> e.name, value |-> e.value]
         IN  IF ~IsReported(e.name)
             THEN /\ outcome = "ok"
                  /\ mK' = mK + 1
                  /\ UNCHANGED <<mPc, mStack, mAdds, mResult>>
             ELSE IF outcome = "string_fails"
             THEN /\ Fail("NewString")
                  /\ UNCHANGED <<mK, mAdds>>
             ELSE IF outcome = "add_fails"
             THEN /\ Fail("add")
                  /\ mAdds' = Append(mAdds, call)
                  /\ UNCHANGED mK
             ELSE /\ mAdds' = Append(mAdds, call)
                  /\ mK' = mK + 1
                  /\ UNCHANGED <<mPc, mStack, mResult>>
    /\ UNCHANGED <<mSnap, mNode, mChildren, mKnown, mVisited, mGetChild, svars>>

\* update_metrics returns Ok(()) and the loop over children() starts: the
\* node's children are read.
StartChildren ==
    /\ mPc = "metrics"
    /\ mK > Len(mSnap)
    /\ \E nc \in 0 .. (MaxNodes - mKnown) :
         LET top == mStack[Len(mStack)]
         IN /\ mStack' = [mStack EXCEPT ![Len(mStack)].nc = nc]
            /\ mChildren' = mChildren \cup {[node |-> top.node, nc |-> nc]}
            /\ mKnown' = mKnown + nc
    /\ mPc' = "children"
    /\ UNCHANGED <<mSnap, mK, mNode, mAdds, mVisited, mGetChild, mResult, svars>>

\* A loop that stops one child early.
LoopStopsEarly(i, nc) == i + 1 < nc

\* Whether the loop over the children has another turn.
LoopContinues(i, nc) == i < nc

\* One turn of the loop: getChild(i) on the host node, then the recursive
\* call on what it returned and on the i-th child plan.
GetChild ==
    /\ mPc = "children"
    /\ LET top == mStack[Len(mStack)]
       IN /\ LoopContinues(top.i, top.nc)
          /\ mGetChild' = Append(mGetChild, [node |-> top.host, i |-> top.i])
          /\ \E ok \in BOOLEAN :
               IF ok
               THEN /\ Enter(mStack, Append(top.node, top.i), HostChild(top.host, top.i))
                    /\ UNCHANGED mResult
               ELSE /\ Fail("getChild")
                    /\ UNCHANGED <<mSnap, mK, mNode, mAdds, mVisited>>
    /\ UNCHANGED <<mChildren, mKnown, svars>>

\* The loop is over: update_spark_metric_node returns Ok(()) to its caller,
\* whose loop moves to the next child.
Return ==
    /\ mPc = "children"
    /\ LET top == mStack[Len(mStack)]
           rest == SubSeq(mStack, 1, Len(mStack) - 1)
       IN /\ ~LoopContinues(top.i, top.nc)
          /\ IF rest = <<>>
             THEN /\ mStack' = <<>>
                  /\ mPc' = "done"
                  /\ mResult' = [kind |-> "ok"]
             ELSE /\ mStack' = [rest EXCEPT ![Len(rest)].i = @ + 1]
                  /\ UNCHANGED <<mPc, mResult>>
    /\ UNCHANGED <<mSnap, mK, mNode, mAdds, mChildren, mKnown, mVisited, mGetChild, svars>>

NextMetrics ==
    \/ StartWalk
    \/ MetricStep
    \/ StartChildren
    \/ GetChild
    \/ Return

SpecMetrics == Init /\ [][NextMetrics]_vars

\* ===================================================== claims: object store

\* The holders of wrapper w still alive: the object reader and the readers
\* handed out from it that have not been dropped.
Holders(w) ==
    (IF wrappers[w].objHeld THEN 1 ELSE 0)
        + Cardinality({r \in 1 .. Len(readers) :
                          readers[r].w = w /\ readers[r].st # "dropped"})

IsRead == last.op = "read"

IsDrop == last.op \in {"drop_reader", "drop_object_reader"}

\* C1: every wrapper a successful file_reader created gets exactly one
\* close() host call over its life: never more than one, none while a
\* holder is alive, and one once the object reader and all its readers have
\* been dropped, whatever the reads did.
C1_ExactlyOneClose ==
    \A w \in WrapperIds :
        wrappers[w].st # "none" =>
            /\ wrappers[w].closeCalls <= 1
            /\ (Holders(w) = 0 <=> wrappers[w].closeCalls = 1)

\* C1's case: a wrapper shared by the object reader and two readers, read
\* from MaxReads times, all of them dropped.
C1_Witness ==
    /\ wrappers[1].st = "destroyed"
    /\ wrappers[1].closeCalls = 1
    /\ Len(readers) = 2
    /\ nReads = MaxReads
    /\ Holders(1) = 0

\* C2 as claimed: after every read the cursor is start plus the sum of the
\* counts returned so far, the host is passed the cursor as it was before
\* the read, and the positions passed to the host never decrease.
C2_PosIsStartPlusReturned ==
    /\ \A r \in 1 .. Len(readers) :
           readers[r].st # "dropped" => readers[r].pos = readers[r].start + readers[r].sum
    /\ (IsRead /\ last.inner.called) =>
           /\ last.inner.hostPos = last.posBefore
           /\ (last.hostPosBefore # NoPos => last.hostPosBefore <= last.inner.hostPos)

\* C3 as claimed: a negative count from the host makes read(buf) return an
\* I/O error, with the cursor where it was.
C3_NegativeCountIsError ==
    (IsRead /\ last.inner.called /\ last.ho.kind = "count" /\ last.ho.n < 0) =>
        /\ last.inner.res = "err"
        /\ last.posAfter = last.posBefore

\* C4 as claimed: the handed-out reader does not buffer, so every caller
\* read whose direct buffer can be created issues exactly one host read
\* (the claim's first half; its second half, on the position, rests on it).
C4_OneHostReadPerRead ==
    (IsRead /\ last.ho.kind # "buf_fail") => Len(last.issued) = 1

\* C4 as amended: the handed-out reader is the BufReader around the
\* HDFSFileReader. A caller read issues no host read while buffered bytes
\* remain and exactly one when none remain (none if the direct buffer cannot
\* be created); that host read is given a buffer of at least BufCapacity
\* bytes and the position start plus the counts the HDFSFileReader returned
\* before, as a wrapped word.
C4_BufferedRead ==
    IsRead =>
        /\ Len(last.issued) <= 1
        /\ (last.availBefore > 0 => last.issued = <<>> /\ last.res = "ok")
        /\ (last.availBefore = 0 /\ last.ho.kind # "buf_fail" => Len(last.issued) = 1)
        /\ (last.issued # <<>> =>
               /\ last.innerLen >= BufCapacity
               /\ last.inner.hostPos =
                      AsSigned((readers[last.reader].start + last.sumBefore) % WordMod))

\* C4's case: the second of two 512-byte reads, served from what the first
\* one's single host read at position 0 brought in.
C4_Witness ==
    /\ IsRead
    /\ last.len = 512
    /\ last.availBefore = 512
    /\ last.issued = <<>>
    /\ last.n = 512
    /\ readers[last.reader].start = 0
    /\ readers[last.reader].hostPos = 0
    /\ readers[last.reader].sum = 1024
    /\ readers[last.reader].given = 1024

\* Whether an error returned by file_reader names the file's path.
HasPathTag(e, path) == "path" \in DOMAIN e /\ e.path = path

\* C8 as claimed: a file_reader whose host call fails returns an I/O-open
\* error tagged with the file's path, no reader, and issues no later host
\* call of the open sequence.
C8_OpenFailure ==
    (last.op = "file_reader" /\ last.failAt # 0) =>
        /\ last.result.kind = "io"
        /\ HasPathTag(last.result, last.file.path)
        /\ last.reader = 0
        /\ last.issued = SubSeq(OpenSteps, 1, last.failAt)

\* C9: a wrapper's Drop whose close() fails still completes normally, leaves
\* the wrapper destroyed and has called close() once, not again.
C9_DropSwallowsCloseFailure ==
    (IsDrop /\ last.closeOutcome = "throw") =>
        /\ last.result = "completed"
        /\ wrappers[last.w].st = "destroyed"
        /\ wrappers[last.w].closeCalls = 1
        /\ last.issued = <<"close">>

\* C9's case: the last holder is a reader, and the close() its drop runs
\* throws.
C9_Witness ==
    /\ last.op = "drop_reader"
    /\ last.ranDrop
    /\ last.closeOutcome = "throw"

\* C10: a read the host answers with 0 returns 0 and leaves the cursor where
\* it was; when the host's previous answer to the reader was 0 too, the
\* read is issued at the same position as that one.
C10_ZeroReadKeepsPos ==
    (IsRead /\ last.inner.called /\ last.ho = [kind |-> "count", n |-> 0]) =>
        /\ last.res = "ok"
        /\ last.n = 0
        /\ last.inner.n = 0
        /\ last.posAfter = last.posBefore
        /\ last.inner.hostPos = AsSigned(last.posBefore)
        /\ (last.eofBefore => last.inner.hostPos = last.hostPosBefore)

\* C10's case: the host answers 0 a second time in a row, on a reader opened
\* at a non-zero offset.
C10_Witness ==
    /\ IsRead
    /\ last.inner.called
    /\ last.ho = [kind |-> "count", n |-> 0]
    /\ last.eofBefore
    /\ readers[last.reader].start = 512

\* ----------------------------- claims: the unsupported methods (SpecApi)

\* C7 as claimed: list_file, list_dir and chunk_reader return a
\* not-implemented error through the result channel, without a host call
\* and without panicking.
C7_NotImplementedError ==
    last.op \in {"list_file", "list_dir", "chunk_reader"} =>
        /\ last.result.kind = "not_implemented"
        /\ last.issued = <<>>

\* ===================================================== claims: metric walk

\* The allow-list of the specification.
AllowList ==
    {"input_rows", "input_batches", "output_rows", "output_batches",
     "elapsed_compute", "join_time"}

\* The add calls the specification expects on host node h for the entries
\* es of a snapshot: one per entry whose name is on the allow-list, in order.
ExpectedAdds(h, es) ==
    LET listed == SelectSeq(es, LAMBDA e : e.name \in AllowList)
    IN  [j \in 1 .. Len(listed) |->
            [node |-> h, name |-> listed[j].name, value |-> listed[j].value]]

\* C5: while no host call has failed, the add calls issued on a node's host
\* metric node are exactly one per snapshot entry passed so far whose name is
\* on the allow-list, in snapshot order, with the entry's name and value;
\* once update_metrics has returned that is one per listed entry of the
\* whole snapshot, and none for any other name.
C5_AddsAreTheListedEntries ==
    mPc \in {"metrics", "children", "done"} =>
        /\ mK <= Len(mSnap) + 1
        /\ (mPc # "metrics" => mK = Len(mSnap) + 1)
        /\ mAdds = ExpectedAdds(mNode, SubSeq(mSnap, 1, mK - 1))

\* C5's case: update_metrics has returned, on a child node, on a snapshot
\* that holds a name differing from a listed one by case only, then the
\* listed name: one add.
C5_Witness ==
    /\ mPc = "children"
    /\ Len(mSnap) = 2
    /\ mSnap[1].name = "Input_rows"
    /\ mSnap[2].name = "input_rows"
    /\ mAdds = <<[node |-> mNode, name |-> "input_rows", value |-> mSnap[2].value]>>
    /\ mNode # <<>>

\* The native plan nodes: the root and the children of every node whose
\* children have been read.
NativeNodes ==
    {<<>>} \cup UNION {{Append(c.node, i) : i \in 0 .. c.nc - 1} : c \in mChildren}

\* The indices of the getChild calls issued on host node h, in call order.
GetChildIndices(h) ==
    LET on == SelectSeq(mGetChild, LAMBDA g : g.node = h)
    IN  [j \in 1 .. Len(on) |-> on[j].i]

\* C6: a walk that ends without a failed host call has visited exactly as
\* many host metric nodes as the native tree has nodes, each once, and on
\* every node n has issued getChild(i) once for each i in [0, c(n)) and for
\* no other index; on a leaf none.
C6_WalkShape ==
    mPc = "done" =>
        /\ Len(mVisited) = Cardinality(NativeNodes)
        /\ {mVisited[j] : j \in 1 .. Len(mVisited)} = NativeNodes
        /\ {c.node : c \in mChildren} = NativeNodes
        /\ \A c \in mChildren :
               GetChildIndices(c.node) = [j \in 1 .. c.nc |-> j - 1]
        /\ Len(mGetChild) = Cardinality(NativeNodes) - 1

\* C6's case: a finished walk over a root with two children.
C6_Witness ==
    /\ mPc = "done"
    /\ [node |-> <<>>, nc |-> 2] \in mChildren
    /\ Len(mVisited) = 3
    /\ Len(mGetChild) = 2

\* The entries of the snapshot prefix es that update_metrics passes to add.
ReportedEntries(es) == SelectSeq(es, LAMBDA e : IsReported(e.name))

\* C11 as claimed: the value of every add call is min(v, i64::MAX) for the
\* native counter value v it reports, and so never negative.
C11_AddSaturates ==
    LET passed == ReportedEntries(SubSeq(mSnap, 1, Min(mK - 1, Len(mSnap))))
    IN  \A j \in 1 .. Len(mAdds) :
            /\ mAdds[j].value >= 0
            /\ (j <= Len(passed) => mAdds[j].value = Min(passed[j].counter, SignedMax))

\* Whether the last operation created a reader.
IsNewReader == last.op \in {"sync_chunk_reader", "sync_reader"}

\* C12: sync_chunk_reader(start, length) issues no host call and returns, for
\* every length, a live reader with cursor start and an empty buffer;
\* sync_reader() returns the reader sync_chunk_reader(0, n) returns; and the
\* first host read of a reader is issued at its start.
C12_LengthIgnored ==
    /\ IsNewReader =>
           /\ last.issued = <<>>
           /\ last.result.kind = "ok"
           /\ last.reader = Len(readers)
           /\ readers[last.reader].pos = last.start
           /\ readers[last.reader].avail = 0
           /\ readers[last.reader].st = "live"
           /\ readers[last.reader].w = last.w
           /\ (last.op = "sync_reader" => last.start = 0)
    /\ (IsRead /\ last.inner.called /\ last.hostPosBefore = NoPos) =>
           last.inner.hostPos = readers[last.reader].start

\* C12's case: sync_chunk_reader(512, 4096) has just returned a second
\* reader, the first one, also opened at 512, having had its host read at 512.
C12_Witness ==
    /\ last.op = "sync_chunk_reader"
    /\ last.start = 512
    /\ last.length = 4096
    /\ last.reader = 2
    /\ readers[2].pos = 512
    /\ readers[1].start = 512
    /\ readers[1].hostPos = 512

\* C13: length() returns the size of the SizedFile file_reader was given and
\* issues no host call, in every state in which the object reader is held:
\* file_reader stores the file it was given, no operation changes what is
\* stored, and length() returns the stored size.
C13_LengthIsFileSize ==
    /\ [](last.op = "length" =>
             /\ last.result = wrappers[last.w].file.size
             /\ last.issued = <<>>)
    /\ []((last.op = "file_reader" /\ last.failAt = 0) =>
             wrappers[last.reader].file = last.file)
    /\ [][\A w \in WrapperIds :
              wrappers[w].st # "none" => wrappers'[w].file = wrappers[w].file]_vars

\* C13's case: length() on the reader of the 100-byte file after both reads
\* of the run, one of which was a host read that threw: a reader the host
\* was asked for, with no count returned and no end of file seen.
C13_Witness ==
    /\ last.op = "length"
    /\ last.result = 100
    /\ nReads = MaxReads
    /\ \E r \in 1 .. Len(readers) :
           /\ readers[r].st = "live"
           /\ readers[r].hostPos # NoPos
           /\ readers[r].sum = 0
           /\ ~readers[r].eof

\* ------------------------------------- claims: reads in progress (SpecThreads)

\* The readers of wrapper w a thread is inside a read of.
Reading(w) ==
    {r \in 1 .. Len(readers) : readers[r].w = w /\ readers[r].st = "reading"}

\* C14: close() is issued on a wrapper's stream only once the object reader
\* and every reader made from it have been dropped; no read is in progress
\* on a reader of the wrapper when close() is issued or later, and no read
\* is entered or returns on a closed stream.
C14_CloseAfterAllHolders ==
    /\ \A w \in WrapperIds :
           /\ (wrappers[w].closeCalls > 0 => Holders(w) = 0)
           /\ (wrappers[w].closeCalls > 0 => Reading(w) = {})
           /\ (wrappers[w].st = "destroyed" => wrappers[w].strong = 0)
    /\ (last.op \in {"read_enter", "read"} =>
           /\ wrappers[readers[last.reader].w].st = "live"
           /\ wrappers[readers[last.reader].w].closeCalls = 0)
    /\ ((IsDrop /\ last.ranDrop) => Holders(last.w) = 0)

\* C14's case: a thread is inside a read on the first reader while the
\* object reader and the second reader have been dropped by others; the
\* stream has not been closed.
C14_Witness ==
    /\ Len(readers) = 2
    /\ readers[1].st = "reading"
    /\ readers[2].st = "dropped"
    /\ ~wrappers[1].objHeld
    /\ wrappers[1].closeCalls = 0
    /\ IsDrop

\* ----------------------------------------------- claims: readers side by side

\* The readers that still exist.
LiveReaders == {r \in 1 .. Len(readers) : readers[r].st # "dropped"}

\* C15 as claimed: of two readers made from one object reader, a read on one
\* leaves the other as it was, and the cursor of each is its own start plus
\* the sum of the counts its own reads returned.
C15_IndependentCursors ==
    /\ [](\A r1, r2 \in LiveReaders :
             (r1 # r2 /\ readers[r1].w = readers[r2].w) =>
                 readers[r1].pos = readers[r1].start + readers[r1].sum)
    /\ [][nReads' # nReads =>
              \A r \in 1 .. Len(readers) :
                  r # last'.reader => readers'[r] = readers[r]]_vars

\* --------------------------------------------- claims: the order of the walk

\* Whether path a is path b or an ancestor of it.
IsPrefix(a, b) == Len(a) <= Len(b) /\ SubSeq(b, 1, Len(a)) = a

\* Whether node a comes before node b in pre-order: a is a proper ancestor
\* of b, or a lies under an earlier child of their last common ancestor.
PreOrderBefore(a, b) ==
    \/ (IsPrefix(a, b) /\ a # b)
    \/ \E k \in 1 .. Min(Len(a), Len(b)) :
          /\ SubSeq(a, 1, k - 1) = SubSeq(b, 1, k - 1)
          /\ a[k] < b[k]

\* The host node getChild call g asked for.
Asked(g) == Append(g.node, g.i)

\* C16: the walk is a pre-order traversal. While the adds of a node are
\* issued no getChild has been issued on it; the getChild calls on a node
\* carry 0, 1, 2, ... in this order; the calls in progress form one chain
\* from the root in which every call works on the node the getChild(i) of
\* its caller returned and on the caller's i-th child plan, so getChild(i+1)
\* is not issued before the call for child i has returned; and the nodes
\* are visited, and the getChild calls issued, in pre-order.
C16_PreOrder ==
    /\ (mPc = "metrics" =>
           /\ mNode = mStack[Len(mStack)].host
           /\ GetChildIndices(mNode) = <<>>)
    /\ \A j \in 1 .. Len(mAdds) : mAdds[j].node = mNode
    /\ \A j \in 1 .. Len(mVisited) :
           LET is == GetChildIndices(mVisited[j])
           IN  is = [k \in 1 .. Len(is) |-> k - 1]
    /\ (mStack # <<>> => mStack[1].host = <<>> /\ mStack[1].node = <<>>)
    /\ \A k \in 1 .. Len(mStack) - 1 :
           /\ mStack[k + 1].host = Append(mStack[k].host, mStack[k].i)
           /\ mStack[k + 1].node = Append(mStack[k].node, mStack[k].i)
           /\ Len(GetChildIndices(mStack[k].host)) = mStack[k].i + 1
    /\ \A j1, j2 \in 1 .. Len(mVisited) :
           j1 < j2 => PreOrderBefore(mVisited[j1], mVisited[j2])
    /\ \A j1, j2 \in 1 .. Len(mGetChild) :
           j1 < j2 => PreOrderBefore(Asked(mGetChild[j1]), Asked(mGetChild[j2]))
    /\ \A j \in 2 .. Len(mVisited) :
           \E g \in 1 .. Len(mGetChild) : Asked(mGetChild[g]) = mVisited[j]

\* C16's case: getChild(1) has been issued on the root and the one add of
\* the second child has been issued, after getChild(0) and the visit of the
\* first child.
C16_Witness ==
    /\ mPc = "metrics"
    /\ mNode = <<1>>
    /\ mVisited = << <<>>, <<0>>, <<1>> >>
    /\ mGetChild = << [node |-> <<>>, i |-> 0], [node |-> <<>>, i |-> 1] >>
    /\ Len(mAdds) = 1

\* ------------------------------------------- claims: a failing host call

\* C17: when a host call of the walk fails (NewString, add or getChild) the
\* walk returns an error holding the host-call error, no call of the walk
\* remains on the stack and no step of the walk follows, so no further host
\* call is issued; the failing step issues the failing call and no other,
\* and every add and getChild issued before stays issued.
C17_WalkAborts ==
    /\ [](mPc = "failed" =>
             /\ mResult.kind = "err"
             /\ mResult.cause.kind = "host"
             /\ mResult.cause.call \in {"NewString", "add", "getChild"}
             /\ mStack = <<>>
             /\ ~ENABLED NextMetrics)
    /\ [](mResult.kind = "err" => mPc = "failed")
    /\ [][mPc' = "failed" =>
              /\ mVisited' = mVisited
              /\ mAdds' = IF mResult'.cause.call = "add"
                          THEN Append(mAdds, mAdds'[Len(mAdds')])
                          ELSE mAdds
              /\ mGetChild' = IF mResult'.cause.call = "getChild"
                              THEN Append(mGetChild, mGetChild'[Len(mGetChild')])
                              ELSE mGetChild]_vars

\* C17's case: the add of the second listed metric of the first child fails,
\* after one add on that node, with a sibling and the node's own children
\* not yet visited.
C17_Witness ==
    /\ mPc = "failed"
    /\ mResult.cause.call = "add"
    /\ mNode = <<0>>
    /\ Len(mAdds) = 2
    /\ mK = 2
    /\ mVisited = << <<>>, <<0>> >>
    /\ [node |-> <<>>, nc |-> 2] \in mChildren

\* ------------------------------------------------- claims: a failing read

\* C18: a read whose direct buffer cannot be created or whose host read
\* throws returns an I/O error and leaves the cursor where it was; the
\* reader stays live with an empty buffer, its wrapper is neither closed nor
\* released; every host read is passed the cursor as it is, so the next
\* read of the reader is issued at the same position: a host read after
\* host reads that all threw carries the position they carried.
C18_FailedReadKeepsPos ==
    /\ (IsRead /\ last.ho.kind \in {"buf_fail", "throw"} /\ last.availBefore = 0) =>
           /\ last.res = "err"
           /\ last.inner.res = "err"
           /\ last.inner.err.kind = "io"
           /\ last.inner.called = (last.ho.kind = "throw")
           /\ last.posAfter = last.posBefore
           /\ readers[last.reader].pos = last.posBefore
           /\ readers[last.reader].st = "live"
           /\ readers[last.reader].avail = 0
           /\ wrappers[readers[last.reader].w].st = "live"
           /\ wrappers[readers[last.reader].w].closeCalls = 0
    /\ (IsRead /\ last.inner.called) => last.inner.hostPos = AsSigned(last.posBefore)
    /\ (IsRead /\ last.inner.called /\ last.hostPosBefore # NoPos
           /\ last.sumBefore = 0 /\ ~last.eofBefore) =>
           last.inner.hostPos = last.hostPosBefore

\* C18's case: on a reader opened at 512 whose first host read threw, the
\* second read is issued at 512 again and returns 1024 bytes.
C18_Witness ==
    /\ IsRead
    /\ last.inner.called
    /\ last.hostPosBefore = 512
    /\ last.sumBefore = 0
    /\ ~last.eofBefore
    /\ last.inner.hostPos = 512
    /\ last.res = "ok"
    /\ last.n = 1024
    /\ readers[last.reader].start = 512

\* ------------------------------------------------ claims: the open sequence

\* How many of the host calls in issued are open(path).
Opens(issued) == Cardinality({i \in 1 .. Len(issued) : issued[i] = "open"})

\* C19: a successful file_reader issues getHDFSFileSystem(), the
\* construction of the path (its string, then the Path object), open(path)
\* and the promotion of the returned stream to a global reference, in this
\* order and once each; no file_reader call issues more than one open, and
\* no other operation (creating a reader, a read, a drop) issues one.
C19_OpenSequence ==
    /\ (last.op = "file_reader" /\ last.failAt = 0) =>
           /\ last.issued = <<"getHDFSFileSystem", "NewString", "HadoopPath",
                              "open", "NewGlobalRef">>
           /\ Opens(last.issued) = 1
           /\ last.result.kind = "ok"
    /\ (last.op = "file_reader" => Opens(last.issued) <= 1)
    /\ (last.op \notin {"init", "file_reader"} => Opens(last.issued) = 0)

\* C19's case: file_reader has just succeeded on "/a/b".
C19_Witness ==
    /\ last.op = "file_reader"
    /\ last.failAt = 0
    /\ last.file.path = "/a/b"
    /\ wrappers[last.reader].st = "live"
    /\ nOpens = 1

\* --------------------------------------------- claims: every stream closed

\* The host streams open(path) has returned: the wrapped ones and the ones
\* file_reader lost.
OpenedStreams == leaked + Cardinality({w \in WrapperIds : wrappers[w].st # "none"})

\* The host streams close() has been called on.
ClosedStreams == Cardinality({w \in WrapperIds : wrappers[w].closeCalls > 0})

\* C20 as claimed: once file_reader has returned and no holder of its result
\* is left, every stream an open(path) returned has had one close(),
\* whether file_reader succeeded or failed after the open.
C20_EveryOpenedStreamClosed ==
    (\A w \in WrapperIds : Holders(w) = 0) =>
        /\ \A w \in WrapperIds : wrappers[w].closeCalls <= 1
        /\ ClosedStreams = OpenedStreams

====
